---- MODULE Spec2Model ----
(***************************************************************************)
(* A model of gitignore_parser.py: the pattern compiler rule_from_pattern, *)
(* the glob translator fnmatch_pathname_to_regex, IgnoreRule.match and the *)
(* rule set evaluator handle_negation behind parse_gitignore.              *)
(*                                                                         *)
(* A Python str is a sequence of one-character strings, indexed from 0 by  *)
(* At.  A regular expression is the list `res` the translator builds, one  *)
(* token per appended piece; re.search is modelled on that list with       *)
(* Python's semantics for the pieces the translator can emit, under the    *)
(* flags (?ms).  The character '-' is in no alphabet below, so a character *)
(* class never holds a range.  os.sep is '/', os.altsep is None (POSIX).   *)
(***************************************************************************)
EXTENDS Naturals, Sequences, FiniteSets

VARIABLES
    pc,         \* where the caller is: "call", "returned", "raised", "matched",
                \* "parse", "ready", "answered"
    line,       \* the pattern line handed to rule_from_pattern
    base_path,  \* the base path handed to rule_from_pattern
    ret,        \* what rule_from_pattern gave: None, an IgnoreRule, or a raise
    file,       \* the lines of the ignore file parse_gitignore reads
    lineno,     \* how many lines of file the loop of parse_gitignore has read
    rules,      \* the list `rules` of parse_gitignore
    query,      \* the candidate of the last IgnoreRule.match / matcher call
    answer      \* the boolean that call returned

vars == <<pc, line, base_path, ret, file, lineno, rules, query, answer>>

(* ------------------------------ bounds -------------------------------- *)

MaxLineLen == 4      \* longest line handed to rule_from_pattern alone
MaxMatchLen == 3     \* longest line over MatchChars that is compiled and matched
MaxGlobLen == 6      \* longest line over GlobChars that is compiled and matched
MaxFileLines == 3    \* most lines of an ignore file

Backslash == "\\"

LineChars == {"a", "/", "*", "!", "#", Backslash, " ", "[", "]"}
MatchChars == {"a", "/", "*", "?", "!", Backslash, " ", "[", "]"}
GlobChars == {"a", "/", "*"}

SeqOf(A, n) == UNION {[1..k -> A] : k \in 0..n}

CompileLines == SeqOf(LineChars, MaxLineLen)
MatchLines == SeqOf(MatchChars, MaxMatchLen) \cup SeqOf(GlobChars, MaxGlobLen)

\* The lines an ignore file is made of: blank, whitespace-only, a comment,
\* bare slashes, an escaped hash, a plain rule and two negations.
LinePool ==
    { <<>>, <<" ">>, <<"#", "a">>, <<"/">>, <<"/", " ">>,
      <<Backslash, "#", "a">>,
      <<"*", "a">>, <<"!", "b", "a">>, <<"!", "a">> }

Files == SeqOf(LinePool, MaxFileLines)

\* A candidate: whether abs_path.resolve().relative_to(base_path) succeeds, and
\* the parts of the relative path when it does.
Inside(parts) == [inside |-> TRUE, parts |-> parts]
Outside == [inside |-> FALSE, parts |-> <<>>]

Candidates ==
    { Inside(<<>>),
      Inside(<< <<"a">> >>), Inside(<< <<"b">> >>),
      Inside(<< <<"a", "a">> >>), Inside(<< <<"b", "a">> >>),
      Inside(<< <<"a", " ">> >>), Inside(<< <<"#", "a">> >>),
      Inside(<< <<"a">>, <<"a">> >>), Inside(<< <<"a">>, <<"b">> >>),
      Inside(<< <<"a">>, <<"a", "a">> >>),
      Inside(<< <<"a">>, <<"b">>, <<"a">> >>),
      Outside }

(* ------------------------------ Python str ---------------------------- *)

Whitespace == {" ", "\t", "\n", "\r"}

At(s, i) == s[i + 1]                              \* s[i]
Slice(s, i, j) == SubSeq(s, i + 1, j)             \* s[i:j]
Chars(s) == {s[k] : k \in 1..Len(s)}

startswith(s, match) ==
    Len(s) >= Len(match) /\ SubSeq(s, 1, Len(match)) = match

endswith(s, match) ==
    Len(s) >= Len(match) /\ SubSeq(s, Len(s) - Len(match) + 1, Len(s)) = match

RECURSIVE rstrip(_)
rstrip(s) ==
    IF s # <<>> /\ s[Len(s)] \in Whitespace
    THEN rstrip(SubSeq(s, 1, Len(s) - 1))
    ELSE s

RECURSIVE lstrip(_)
lstrip(s) ==
    IF s # <<>> /\ s[1] \in Whitespace THEN lstrip(Tail(s)) ELSE s

strip(s) == lstrip(rstrip(s))

\* match in s  (s.find(match) > -1)
contains(s, match) ==
    \E i \in 0..(Len(s) - Len(match)) : Slice(s, i, i + Len(match)) = match

\* The start indexes of re.finditer(r'\*\*', s): leftmost, non-overlapping.
RECURSIVE finditer_from(_, _)
finditer_from(s, i) ==
    IF i + 2 > Len(s) THEN {}
    ELSE IF At(s, i) = "*" /\ At(s, i + 1) = "*"
         THEN {i} \cup finditer_from(s, i + 2)
         ELSE finditer_from(s, i + 1)

finditer(s) == finditer_from(s, 0)

\* os.sep.join(parts)
RECURSIVE join(_)
join(parts) ==
    IF parts = <<>> THEN <<>>
    ELSE IF Len(parts) = 1 THEN parts[1]
    ELSE parts[1] \o <<"/">> \o join(Tail(parts))

Cut(s, found) == [s |-> s, found |-> found]

str_lcut(s, match) ==
    IF startswith(s, match)
    THEN Cut(Slice(s, Len(match), Len(s)), TRUE)
    ELSE Cut(s, FALSE)

str_rcut(s, match) ==
    IF endswith(s, match)
    THEN Cut(Slice(s, 0, Len(s) - Len(match)), TRUE)
    ELSE Cut(s, FALSE)

(* --------------------- fnmatch_pathname_to_regex ---------------------- *)

\* One entry of the list `res`.  op is the regular expression text of the
\* piece where that text is fixed; "lit" is re.escape(c) for the character
\* arg, "set" is '[stuff]' for the text arg.  glob records the glob construct
\* the piece translates ("" for the pieces added after the scan).
Tok(op, arg, glob) == [op |-> op, arg |-> arg, glob |-> glob]

seps_group(glob) == Tok("[/]", <<>>, glob)         \* '[' + '|'.join(seps) + ']'
nonsep(glob) == Tok("[^/]", <<>>, glob)            \* '[^/]'

single_star_dotall == Tok(".*", <<>>, "*")

\* the piece for a single '*': nonsep + '*'
single_star == Tok("[^/]*", <<>>, "*")

\* stuff.replace('\\', '\\\\')
RECURSIVE double_backslashes(_)
double_backslashes(stuff) ==
    IF stuff = <<>> THEN <<>>
    ELSE IF stuff[1] = Backslash
         THEN <<Backslash, Backslash>> \o double_backslashes(Tail(stuff))
         ELSE <<stuff[1]>> \o double_backslashes(Tail(stuff))

\* while j < n and pattern[j] != ']': j += 1
RECURSIVE skip_to_bracket(_, _)
skip_to_bracket(pattern, j) ==
    IF j < Len(pattern) /\ At(pattern, j) # "]"
    THEN skip_to_bracket(pattern, j + 1)
    ELSE j

\* The body of `while i < n`, from index i on: the pieces appended to res.
RECURSIVE scan(_, _)
scan(pattern, i0) ==
    LET n == Len(pattern) IN
    IF ~(i0 < n) THEN <<>>
    ELSE
      LET c == At(pattern, i0)
          i == i0 + 1
      IN
      IF c = "*" THEN
          IF ~(i < n)                                 \* pattern[i]: IndexError
          THEN <<single_star>> \o scan(pattern, i)
          ELSE IF At(pattern, i) = "*"
          THEN IF ~(i + 1 < n)                        \* pattern[i]: IndexError
               THEN <<Tok(".*", <<>>, "**"), Tok("[^/]*", <<>>, "**")>>
                        \o scan(pattern, i + 1)
               ELSE IF At(pattern, i + 1) = "/"
               THEN <<Tok(".*", <<>>, "**"), Tok("[/]?", <<>>, "**")>>
                        \o scan(pattern, i + 2)
               ELSE <<Tok(".*", <<>>, "**")>> \o scan(pattern, i + 1)
          ELSE <<single_star>> \o scan(pattern, i)
      ELSE IF c = "?" THEN <<nonsep("?")>> \o scan(pattern, i)
      ELSE IF c = "/" THEN <<seps_group("/")>> \o scan(pattern, i)
      ELSE IF c = "[" THEN
          LET j1 == IF i < n /\ At(pattern, i) = "!" THEN i + 1 ELSE i
              j2 == IF j1 < n /\ At(pattern, j1) = "]" THEN j1 + 1 ELSE j1
              j == skip_to_bracket(pattern, j2)
          IN
          IF j >= n
          THEN <<Tok("lit", <<"[">>, "[")>> \o scan(pattern, i)
          ELSE
            LET stuff == double_backslashes(Slice(pattern, i, j))
                stuff2 == IF stuff[1] = "!" THEN <<"^">> \o Tail(stuff)
                          ELSE IF stuff[1] = "^" THEN <<Backslash>> \o stuff
                          ELSE stuff
            IN <<Tok("set", stuff2, "[")>> \o scan(pattern, j + 1)
      ELSE <<Tok("lit", <<c>>, "c")>> \o scan(pattern, i)

fnmatch_pathname_to_regex(pattern, directory_only, negation, anchored) ==
    LET res == scan(pattern, 0)
        res1 == IF anchored THEN <<Tok("^", <<>>, "")>> \o res ELSE res
        res2 == <<Tok("(?ms)", <<>>, "")>> \o res1
    IN  IF ~directory_only THEN Append(res2, Tok("$", <<>>, ""))
        ELSE IF directory_only /\ negation THEN Append(res2, Tok("/$", <<>>, ""))
        ELSE Append(res2, Tok("($|\\/)", <<>>, ""))

(* -------------------------- rule_from_pattern ------------------------- *)

None == [kind |-> "None"]
Raise(exc) == [kind |-> "raise", exc |-> exc]

IgnoreRule(pattern, regex, negation, directory_only, anchored, base, source) ==
    [kind |-> "IgnoreRule", pattern |-> pattern, regex |-> regex,
     negation |-> negation, directory_only |-> directory_only,
     anchored |-> anchored, base_path |-> base, source |-> source]

\* A base path: only whether it is absolute matters to the compiler.
AbsoluteBase == [absolute |-> TRUE]
RelativeBase == [absolute |-> FALSE]

assert_absolute(path) == IF ~path.absolute THEN Raise("ValueError") ELSE None

comment_or_separator_no_hash(pattern) == strip(pattern) = <<>>

\* pattern.strip() == '' or pattern[0] == '#'
comment_or_separator(pattern) ==
    strip(pattern) = <<>> \/ At(pattern, 0) = "#"

invalid_double_asterisk_and(pattern) ==
    \E start_index \in finditer(pattern) :
        /\ start_index # 0
        /\ start_index # Len(pattern) - 2
        /\ At(pattern, start_index - 1) # "/"
        /\ At(pattern, start_index + 2) # "/"

\* the for loop over re.finditer(r'\*\*', pattern) returns
invalid_double_asterisk(pattern) ==
    \E start_index \in finditer(pattern) :
        /\ start_index # 0
        /\ start_index # Len(pattern) - 2
        /\ \/ At(pattern, start_index - 1) # "/"
           \/ At(pattern, start_index + 2) # "/"

\* From the first str_lcut to `if have_escaped_space: pattern += ' '`: the
\* glob body handed to the translator and whether a leading '**' was cut.
\* pattern is the line without its leading bang.
glob_body(pattern) ==
    LET p1 == str_lcut(pattern, <<"/">>).s
        c2 == str_lcut(p1, <<"*", "*">>)
        p3 == str_lcut(c2.s, <<"/">>).s
        p4 == str_rcut(p3, <<"/">>).s
        p5 == IF startswith(p4, <<Backslash, "#">>) THEN Tail(p4) ELSE p4
        p6 == rstrip(p5)
        c7 == str_rcut(p6, <<Backslash>>)
    IN  [pattern |-> IF c7.found THEN c7.s \o <<" ">> ELSE c7.s,
         have_double_asterisk |-> c2.found]

\* From `directory_only = ...` to the return: pattern is the line without its
\* leading bang.  pattern[-1] of the empty string raises IndexError.
build_rule(orig_pattern, pattern, negation, base, source) ==
    IF pattern = <<>> THEN Raise("IndexError")
    ELSE
      LET directory_only == pattern[Len(pattern)] = "/"
          body == glob_body(pattern)
          anchored == IF body.have_double_asterisk THEN FALSE
                      ELSE "/" \in Chars(Slice(pattern, 0, Len(pattern) - 1))
          regex == fnmatch_pathname_to_regex(body.pattern, directory_only,
                                             negation, anchored)
      IN IgnoreRule(orig_pattern, regex, negation, directory_only, anchored,
                    base, source)

rule_from_pattern(pattern, base, source) ==
    IF assert_absolute(base) # None THEN assert_absolute(base)
    ELSE IF comment_or_separator(pattern) THEN None
    ELSE IF contains(pattern, <<"*", "*", "*">>) THEN None
    ELSE
      LET negation == At(pattern, 0) = "!"
          pattern0 == IF negation THEN Tail(pattern) ELSE pattern
      IN  IF invalid_double_asterisk(pattern0) THEN None
          ELSE IF rstrip(pattern0) = <<"/">> THEN None
          ELSE build_rule(pattern, pattern0, negation, base, source)

(* ------------------------------ re.search ----------------------------- *)

\* The characters a set '[stuff]' names, stuff without its leading '^':
\* a backslash makes the next character literal.
RECURSIVE set_members(_)
set_members(stuff) ==
    IF stuff = <<>> THEN {}
    ELSE IF stuff[1] = Backslash /\ Len(stuff) >= 2
         THEN {stuff[2]} \cup set_members(Tail(Tail(stuff)))
         ELSE {stuff[1]} \cup set_members(Tail(stuff))

set_matches(stuff, c) ==
    IF stuff[1] = "^"
    THEN c \notin set_members(Tail(stuff))
    ELSE c \in set_members(stuff)

\* '^' and '$' under re.MULTILINE, at offset p of s.
at_line_start(s, p) == p = 0 \/ s[p] = "\n"
at_line_end(s, p) == p = Len(s) \/ s[p + 1] = "\n"

\* The offsets at which token tok can stop when it starts at offset p of s.
token_ends(tok, s, p) ==
    LET more == p < Len(s)
        c == s[p + 1]
    IN  CASE tok.op = "(?ms)" -> {p}
          [] tok.op = "^" -> IF at_line_start(s, p) THEN {p} ELSE {}
          [] tok.op = "$" -> IF at_line_end(s, p) THEN {p} ELSE {}
          [] tok.op = "/$" ->
                IF more /\ c = "/" /\ at_line_end(s, p + 1) THEN {p + 1} ELSE {}
          [] tok.op = "($|\\/)" ->
                (IF at_line_end(s, p) THEN {p} ELSE {})
                    \cup (IF more /\ c = "/" THEN {p + 1} ELSE {})
          [] tok.op = ".*" -> p..Len(s)                  \* re.DOTALL
          [] tok.op = "[^/]*" ->
                {q \in p..Len(s) : \A k \in (p + 1)..q : s[k] # "/"}
          [] tok.op = "[^/]" -> IF more /\ c # "/" THEN {p + 1} ELSE {}
          [] tok.op = "[/]" -> IF more /\ c = "/" THEN {p + 1} ELSE {}
          [] tok.op = "[/]?" -> {p} \cup (IF more /\ c = "/" THEN {p + 1} ELSE {})
          [] tok.op = "lit" -> IF more /\ c = tok.arg[1] THEN {p + 1} ELSE {}
          [] tok.op = "set" ->
                IF more /\ set_matches(tok.arg, c) THEN {p + 1} ELSE {}

\* Tokens k.. of regex match s from offset p on.
RECURSIVE matches_from(_, _, _, _)
matches_from(regex, k, s, p) ==
    \/ k > Len(regex)
    \/ \E q \in token_ends(regex[k], s, p) : matches_from(regex, k + 1, s, q)

\* bool(re.search(regex, s))
re_search(regex, s) == \E start \in 0..Len(s) : matches_from(regex, 1, s, start)

(* --------------------- IgnoreRule.match, handle_negation -------------- *)

IgnoreRule_match(rule, abs_path, is_dir) ==
    IF ~abs_path.inside THEN FALSE            \* relative_to raises: return False
    ELSE
      LET rel_path0 == join(abs_path.parts)
          rel_path == IF rule.negation /\ is_dir
                      THEN rel_path0 \o <<"/">> ELSE rel_path0
      IN re_search(rule.regex, rel_path)

RECURSIVE handle_negation_forward(_, _, _)
handle_negation_forward(rs, file_path, is_dir) ==
    IF rs = <<>> THEN FALSE
    ELSE IF IgnoreRule_match(rs[1], file_path, is_dir)
         THEN ~rs[1].negation
         ELSE handle_negation_forward(Tail(rs), file_path, is_dir)

\* for rule in reversed(rules): the first rule that matches decides
RECURSIVE handle_negation(_, _, _)
handle_negation(rs, file_path, is_dir) ==
    IF rs = <<>> THEN FALSE
    ELSE IF IgnoreRule_match(rs[Len(rs)], file_path, is_dir)
         THEN ~rs[Len(rs)].negation
         ELSE handle_negation(SubSeq(rs, 1, Len(rs) - 1), file_path, is_dir)

\* The list `rules` after the loop of parse_gitignore has read `lines`, the
\* first of them at index lineno, when no line raises.
RECURSIVE parse_rules(_, _)
parse_rules(lines, n) ==
    IF lines = <<>> THEN <<>>
    ELSE LET rule == rule_from_pattern(lines[1], AbsoluteBase, n + 1)
         IN  (IF rule.kind = "IgnoreRule" THEN <<rule>> ELSE <<>>)
                 \o parse_rules(Tail(lines), n + 1)

(* ------------------------------ the program --------------------------- *)

NotYet == [kind |-> "not yet"]
NoQuery == [inside |-> FALSE, parts |-> <<>>, is_dir |-> FALSE, asked |-> FALSE]
Asked(abs_path, is_dir) ==
    [inside |-> abs_path.inside, parts |-> abs_path.parts, is_dir |-> is_dir,
     asked |-> TRUE]

Idle ==
    /\ ret = NotYet
    /\ lineno = 0
    /\ rules = <<>>
    /\ query = NoQuery
    /\ answer = FALSE

\* A caller about to hand one line to rule_from_pattern, with any base path.
InitCompile ==
    /\ pc = "call"
    /\ line \in CompileLines
    /\ base_path \in {AbsoluteBase, RelativeBase}
    /\ file = <<>>
    /\ Idle

\* A caller about to compile one line against an absolute base and match it.
InitMatch ==
    /\ pc = "call"
    /\ line \in MatchLines
    /\ base_path = AbsoluteBase
    /\ file = <<>>
    /\ Idle

\* parse_gitignore about to read an ignore file; base_dir.resolve() is absolute.
InitEval ==
    /\ pc = "parse"
    /\ line = <<>>
    /\ base_path = AbsoluteBase
    /\ file \in Files
    /\ Idle

\* rule = rule_from_pattern(line, base_path, source)
Compile ==
    /\ pc = "call"
    /\ ret' = rule_from_pattern(line, base_path, 1)
    /\ pc' = IF ret'.kind = "raise" THEN "raised" ELSE "returned"
    /\ UNCHANGED <<line, base_path, file, lineno, rules, query, answer>>

\* rule.match(abs_path, is_dir) on the rule just compiled
Match ==
    /\ pc = "returned"
    /\ ret.kind = "IgnoreRule"
    /\ \E abs_path \in Candidates, is_dir \in BOOLEAN :
          /\ query' = Asked(abs_path, is_dir)
          /\ answer' = IgnoreRule_match(ret, abs_path, is_dir)
    /\ pc' = "matched"
    /\ UNCHANGED <<line, base_path, ret, file, lineno, rules>>

\* One turn of `for lineno, line in enumerate(ignore_file)`.
ParseLine ==
    /\ pc = "parse"
    /\ lineno < Len(file)
    /\ line' = file[lineno + 1]
    /\ ret' = rule_from_pattern(line', base_path, lineno + 1)
    /\ IF ret'.kind = "raise"
       THEN pc' = "raised" /\ UNCHANGED <<lineno, rules>>
       ELSE /\ pc' = "parse"
            /\ lineno' = lineno + 1
            /\ rules' = IF ret'.kind = "IgnoreRule" THEN Append(rules, ret')
                        ELSE rules
    /\ UNCHANGED <<base_path, file, query, answer>>

\* return partial(handle_negation, rules)
Return ==
    /\ pc = "parse"
    /\ lineno = Len(file)
    /\ pc' = "ready"
    /\ UNCHANGED <<line, base_path, ret, file, lineno, rules, query, answer>>

\* A call of the matcher parse_gitignore returned.
Query ==
    /\ pc = "ready"
    /\ \E file_path \in Candidates, is_dir \in BOOLEAN :
          /\ query' = Asked(file_path, is_dir)
          /\ answer' = handle_negation(rules, file_path, is_dir)
    /\ pc' = "answered"
    /\ UNCHANGED <<line, base_path, ret, file, lineno, rules>>

NextCompile == Compile
NextMatch == Compile \/ Match
NextEval == ParseLine \/ Return \/ Query

SpecCompile == InitCompile /\ [][NextCompile]_vars
SpecMatch == InitMatch /\ [][NextMatch]_vars
SpecEval == InitEval /\ [][NextEval]_vars

(* ------------------------------ properties ---------------------------- *)

Unbang(l) == IF l # <<>> /\ l[1] = "!" THEN Tail(l) ELSE l

\* A plain name: one or more letters, no glob or ignore-file syntax.
PlainName(l) == l # <<>> /\ \A k \in 1..Len(l) : l[k] \in {"a", "b"}

Compiled == pc \in {"returned", "matched"} /\ ret.kind = "IgnoreRule"

RelPath == join(query.parts)

LastPart == query.parts[Len(query.parts)]

\* C1: the matcher answers "ignored" exactly when the last rule in declaration
\* order that matches the candidate is not a negation, and "not ignored" when
\* that rule is a negation or no rule matches; for the file "*a", "!ba", "*a"
\* the path ba is ignored.
C1_LastMatchingRuleDecides ==
    pc = "answered" =>
        LET hits == {k \in 1..Len(rules) :
                        IgnoreRule_match(rules[k], query, query.is_dir)}
            last == CHOOSE k \in hits : \A j \in hits : j <= k
        IN  /\ answer = (hits # {} /\ ~rules[last].negation)
            /\ ( /\ file = << <<"*", "a">>, <<"!", "b", "a">>, <<"*", "a">> >>
                 /\ query.inside
                 /\ query.parts = << <<"b", "a">> >>
                 /\ ~query.is_dir ) => answer

\* C1 witness: a negation matched the candidate and a later plain rule matched
\* it again.
C1_Witness ==
    /\ pc = "answered"
    /\ answer
    /\ \E j, k \in 1..Len(rules) :
          /\ j < k
          /\ rules[j].negation /\ ~rules[k].negation
          /\ IgnoreRule_match(rules[j], query, query.is_dir)
          /\ IgnoreRule_match(rules[k], query, query.is_dir)

\* C2 (as claimed): a directory-only rule, negated or not, does not match a
\* candidate that is not a directory and whose relative path is the pattern's
\* name.
C2_DirectoryOnlyNeverMatchesFile ==
    ( /\ pc = "matched"
      /\ ret.directory_only
      /\ query.inside /\ ~query.is_dir
      /\ PlainName(RelPath)
      /\ Unbang(line) = RelPath \o <<"/">> ) => ~answer

\* The offsets tokens 1..k-1 of regex can reach in s from offset start.
RECURSIVE reach(_, _, _, _)
reach(regex, k, s, start) ==
    IF k = 1 THEN {start}
    ELSE UNION {token_ends(regex[k - 1], s, p) : p \in reach(regex, k - 1, s, start)}

\* C3: in every match of a compiled rule, the text a single '*' or a '?' stands
\* for holds no '/'; the anchored pattern a/* matches a/a and not a/b/a, and
\* a?a does not match a/a.
C3_StarAndQuestionStayInSegment ==
    pc = "matched" =>
        LET s == IF ret.negation /\ query.is_dir
                 THEN RelPath \o <<"/">> ELSE RelPath
        IN  /\ query.inside =>
                \A start \in 0..Len(s), k \in 1..Len(ret.regex) :
                    ret.regex[k].glob \in {"*", "?"} =>
                        \A p \in reach(ret.regex, k, s, start) :
                            \A q \in token_ends(ret.regex[k], s, p) :
                                matches_from(ret.regex, k + 1, s, q) =>
                                    \A i \in (p + 1)..q : s[i] # "/"
            /\ (line = <<"a", "/", "*">> /\ query.inside) =>
                  /\ query.parts = << <<"a">>, <<"a">> >> => answer
                  /\ query.parts = << <<"a">>, <<"b">>, <<"a">> >> => ~answer
            /\ ( /\ line = <<"a", "?", "a">>
                 /\ query.parts = << <<"a">>, <<"a">> >> ) => ~answer

\* C3 witness: a rule with a '*' matched a path that holds a separator.
C3_Witness ==
    /\ pc = "matched"
    /\ answer
    /\ "/" \in Chars(RelPath)
    /\ \E k \in 1..Len(ret.regex) : ret.regex[k].glob = "*"

\* C4 (as claimed): the pattern a/**/a matches a relative path only if the path
\* is a/a or a/<one or more whole segments>/a.
C4_DoubleStarSlashTakesWholeSegments ==
    ( /\ pc = "matched"
      /\ answer
      /\ line = <<"a", "/", "*", "*", "/", "a">> )
    => /\ Len(query.parts) >= 2
       /\ query.parts[1] = <<"a">>
       /\ LastPart = <<"a">>

\* C5 (as claimed): with an absolute base path rule_from_pattern returns None or
\* an IgnoreRule for every line; with a base path that is not absolute it
\* raises ValueError for every line.
C5_RaisesOnlyForRelativeBase ==
    pc # "call" =>
        IF base_path.absolute
        THEN ret.kind \in {"None", "IgnoreRule"}
        ELSE ret = Raise("ValueError")

\* A line the claim C6 calls without effect: blank or whitespace-only, a
\* comment, or exactly "/" once its trailing whitespace is stripped.
Trivial(l) == strip(l) = <<>> \/ l[1] = "#" \/ rstrip(l) = <<"/">>

RECURSIVE WithoutTrivial(_)
WithoutTrivial(lines) ==
    IF lines = <<>> THEN <<>>
    ELSE IF Trivial(lines[1]) THEN WithoutTrivial(Tail(lines))
    ELSE <<lines[1]>> \o WithoutTrivial(Tail(lines))

\* C6: a blank, comment or bare-slash line compiles to no rule, and the
\* matcher's answer is the answer of the matcher of the file without such
\* lines; the line \#a compiles to a rule that matches the name #a.
C6_TrivialLinesHaveNoEffect ==
    /\ (pc \in {"parse", "ready", "answered"} /\ lineno >= 1 /\ Trivial(line))
           => ret = None
    /\ pc = "answered" =>
           answer = handle_negation(parse_rules(WithoutTrivial(file), 0),
                                    query, query.is_dir)
    /\ (pc \in {"parse", "ready", "answered"} /\ line = <<Backslash, "#", "a">>)
           => /\ ret.kind = "IgnoreRule"
              /\ IgnoreRule_match(ret, Inside(<< <<"#", "a">> >>), FALSE)
              /\ ~IgnoreRule_match(ret, Inside(<< <<"a">> >>), FALSE)

\* C6 witness: a file with a comment line among its rules was asked and
\* answered "ignored".
C6_Witness ==
    /\ pc = "answered"
    /\ answer
    /\ Len(rules) >= 1
    /\ \E k \in 1..Len(file) : file[k] = <<"#", "a">>

\* A '**' of l that is not at the very start of l, not at the very end of l,
\* and not between two '/'.
MisplacedDoubleStar(l) ==
    \E i \in 1..(Len(l) - 1) :
        /\ l[i] = "*" /\ l[i + 1] = "*"
        /\ i # 1
        /\ i + 1 # Len(l)
        /\ ~(l[i - 1] = "/" /\ l[i + 2] = "/")

TripleStar(l) == \E i \in 1..(Len(l) - 2) : l[i] = "*" /\ l[i + 1] = "*" /\ l[i + 2] = "*"

\* A line another rule of the compiler discards.
DiscardedOtherwise(l) ==
    strip(l) = <<>> \/ l[1] = "#" \/ rstrip(Unbang(l)) = <<"/">>

\* C7 (as claimed): a line with '***', or with a '**' misplaced in the line,
\* gives no rule; a line with neither is not discarded for its asterisks.
C7_MisplacedInTheLine ==
    pc # "call" =>
        /\ (TripleStar(line) \/ MisplacedDoubleStar(line))
               => ret.kind # "IgnoreRule"
        /\ ( /\ base_path.absolute
             /\ ~TripleStar(line) /\ ~MisplacedDoubleStar(line)
             /\ ~DiscardedOtherwise(line) ) => ret # None

\* C7 (amended): a line with '***', or with a '**' misplaced in the line taken
\* without its leading '!', gives no rule; a line with neither is not discarded
\* for its asterisks.
C7_MisplacedAfterTheBang ==
    pc # "call" =>
        /\ (TripleStar(line) \/ MisplacedDoubleStar(Unbang(line)))
               => ret.kind # "IgnoreRule"
        /\ ( /\ base_path.absolute
             /\ ~TripleStar(line) /\ ~MisplacedDoubleStar(Unbang(line))
             /\ ~DiscardedOtherwise(line) ) => ret # None

\* C7 witness: a line discarded only for a misplaced '**'.
C7_Witness ==
    /\ pc = "returned"
    /\ base_path.absolute
    /\ ret = None
    /\ MisplacedDoubleStar(Unbang(line))
    /\ ~TripleStar(line)
    /\ ~DiscardedOtherwise(line)

\* C8 (as claimed): the rule compiled from !p matches a candidate exactly when
\* the rule compiled from p matches it.
C8_NegationKeepsThePredicate ==
    (pc = "matched" /\ ~ret.negation) =>
        LET negated == rule_from_pattern(<<"!">> \o line, base_path, 1)
        IN  negated.kind = "IgnoreRule" =>
                IgnoreRule_match(negated, query, query.is_dir) = answer

\* The text before the trailing whitespace of l ends in a backslash that
\* escapes a space.
EndsInEscapedSpace(l) ==
    Len(rstrip(l)) < Len(l) /\ endswith(rstrip(l), <<Backslash>>)

\* C9 (as claimed): a name followed by unescaped spaces matches what the name
\* matches; name\<space> matches the name with the space and not the name; the
\* glob body of a line that does not end in an escaped space ends in no space.
C9_TrailingSpace ==
    /\ (pc = "matched" /\ PlainName(rstrip(line)))
           => answer = IgnoreRule_match(
                           rule_from_pattern(rstrip(line), base_path, 1),
                           query, query.is_dir)
    /\ ( /\ pc = "matched"
         /\ endswith(line, <<Backslash, " ">>)
         /\ PlainName(Slice(line, 0, Len(line) - 2))
         /\ query.inside /\ ~query.is_dir )
           => LET name == Slice(line, 0, Len(line) - 2)
              IN  /\ query.parts = <<name \o <<" ">> >> => answer
                  /\ query.parts = <<name>> => ~answer
    /\ (Compiled /\ ~EndsInEscapedSpace(line))
           => LET n == Len(ret.regex)
              IN  ~(n >= 3 /\ ret.regex[n - 1].op = "lit"
                           /\ ret.regex[n - 1].arg = <<" ">>)

\* C10 (as claimed): the rule of a plain name matches a relative path only
\* where the name starts a path segment: it matches only a path whose last
\* segment is the name.
C10_UnanchoredStartsAtSegment ==
    ( /\ pc = "matched"
      /\ PlainName(line)
      /\ ~query.is_dir
      /\ answer )
    => query.parts # <<>> /\ LastPart = line

====
